---- MODULE Spec2Model ----
(***************************************************************************)
(* Model of src/student_code.py: VersatileDigraph, SortableDigraph,        *)
(* TraversableDigraph and DAG.  One graph object is modelled; its class    *)
(* (cls) is fixed at construction.  Every method is a pure operator over   *)
(* the object's fields (the record "self"), computed the way the Python    *)
(* code computes it; every action is one call of one public method.        *)
(*                                                                         *)
(* dfs and bfs are generators; an action consumes the generator to its     *)
(* end (list(g.dfs(s))) with no mutation of the graph in between.          *)
(***************************************************************************)
EXTENDS Integers, Sequences, FiniteSets

VARIABLES
    cls,        \* class of the object: "TraversableDigraph" or "DAG"
    nodeKeys,   \* self.nodes: the keys in dict (insertion) order
    nodes,      \* self.nodes: key -> node value
    edges,      \* self.edges: <<start, end>> -> [weight, name] (the dict's
                \* iteration order, read by predecessors only, is left out)
    adjacency,  \* self.adjacency: key -> sequence of <<end, name>>
    call,       \* the last call made on the object: [op, args]
    ret         \* what that call returned: [raised, val]

vars == <<cls, nodeKeys, nodes, edges, adjacency, call, ret>>

----------------------------------------------------------------------------
(* Bounds and input sets *)

\* Largest number of adjacency entries (successful add_edge calls).
MaxEdges == 3

\* Node keys, in the order in which calls introduce them.  Keys are opaque
\* to the code (only hashed and compared for equality), so a call that
\* introduces a new key always takes the next unused one.
KeyOrder == <<"a", "b", "c", "d">>

\* The default node_value of add_node and add_edge.
DefaultValue == 0

\* Node values offered to add_node and add_edge under SpecValues: the
\* default and one other.  Under Spec every call passes the default.
Values == {DefaultValue, 1}

\* The keys used under SpecValues.
ValueKeyOrder == SubSeq(KeyOrder, 1, 3)

\* edge_name and edge_weight offered to add_edge: the defaults.
DefaultName == ""

DefaultWeight == 0

EdgeNames == {DefaultName}

EdgeWeights == {DefaultWeight}

----------------------------------------------------------------------------
(* Helpers for dicts and lists *)

EmptyDict == [k \in {} |-> 0]

Put(f, k, v) == [x \in (DOMAIN f) \cup {k} |-> IF x = k THEN v ELSE f[x]]

Reverse(s) == [i \in 1..Len(s) |-> s[Len(s) + 1 - i]]

Range(s) == {s[i] : i \in 1..Len(s)}

\* The object's fields as one value.
Self ==
    [nodeKeys |-> nodeKeys, nodes |-> nodes, edges |-> edges,
     adjacency |-> adjacency]

EmptyGraph ==
    [nodeKeys |-> <<>>, nodes |-> EmptyDict, edges |-> EmptyDict,
     adjacency |-> EmptyDict]

----------------------------------------------------------------------------
(* VersatileDigraph *)

add_node(self, node_id, node_value) ==
    [self EXCEPT
        !.nodeKeys = IF node_id \in DOMAIN self.nodes
                     THEN @ ELSE Append(@, node_id),
        !.nodes = Put(@, node_id, node_value),
        !.adjacency = IF node_id \in DOMAIN @ THEN @
                      ELSE Put(@, node_id, <<>>)]

\* "if x not in self.nodes: self.add_node(x, value)"
ensure_node(self, node_id, node_value) ==
    IF node_id \notin DOMAIN self.nodes
    THEN add_node(self, node_id, node_value)
    ELSE self

\* The arguments of one add_edge call, as one value.
EdgeArgs(start_node, end_node, start_node_value, end_node_value, edge_name, edge_weight) ==
    [start_node |-> start_node, end_node |-> end_node,
     start_node_value |-> start_node_value,
     end_node_value |-> end_node_value,
     edge_name |-> edge_name, edge_weight |-> edge_weight]

\* add_edge that calls add_node for both endpoints unconditionally.
add_edge_overwrite(self, a) ==
    LET s1 == add_node(self, a.start_node, a.start_node_value)
        s2 == add_node(s1, a.end_node, a.end_node_value)
    IN  [s2 EXCEPT
            !.edges = Put(@, <<a.start_node, a.end_node>>,
                          [weight |-> a.edge_weight, name |-> a.edge_name]),
            !.adjacency = Put(@, a.start_node,
                              Append(@[a.start_node],
                                     <<a.end_node, a.edge_name>>))]

add_edge(self, a) ==
    LET s1 == ensure_node(self, a.start_node, a.start_node_value)
        s2 == ensure_node(s1, a.end_node, a.end_node_value)
        s3 == [s2 EXCEPT !.edges =
                 Put(@, <<a.start_node, a.end_node>>,
                     [weight |-> a.edge_weight, name |-> a.edge_name])]
        s4 == IF a.start_node \notin DOMAIN s3.adjacency
              THEN [s3 EXCEPT !.adjacency = Put(@, a.start_node, <<>>)]
              ELSE s3
    IN  [s4 EXCEPT !.adjacency =
            Put(@, a.start_node,
                Append(@[a.start_node], <<a.end_node, a.edge_name>>))]

get_nodes(self) == self.nodeKeys

get_edge_weight(self, start_node, end_node) ==
    IF <<start_node, end_node>> \in DOMAIN self.edges
    THEN self.edges[<<start_node, end_node>>].weight
    ELSE 0

get_node_value(self, node_id) ==
    IF node_id \in DOMAIN self.nodes THEN self.nodes[node_id] ELSE 0

successors(self, node) ==
    IF node \in DOMAIN self.adjacency
    THEN [i \in 1..Len(self.adjacency[node]) |-> self.adjacency[node][i][1]]
    ELSE <<>>

indegree(self, node) ==
    Cardinality({e \in DOMAIN self.edges : e[2] = node})

outdegree(self, node) ==
    IF node \in DOMAIN self.adjacency THEN Len(self.adjacency[node]) ELSE 0

----------------------------------------------------------------------------
(* SortableDigraph.top_sort: Kahn's algorithm *)

RECURSIVE KahnRelax(_, _, _, _)
\* "for successor in self.successors(current)": the entries from index i on.
KahnRelax(succs, i, in_degrees, queue) ==
    IF i > Len(succs) THEN [in_degrees |-> in_degrees, queue |-> queue]
    ELSE LET successor == succs[i]
             d == [in_degrees EXCEPT ![successor] = @ - 1]
         IN  KahnRelax(succs, i + 1, d,
                       IF d[successor] = 0 THEN Append(queue, successor)
                       ELSE queue)

RECURSIVE KahnLoop(_, _, _, _)
\* "while queue:"
KahnLoop(self, in_degrees, queue, result) ==
    IF queue = <<>> THEN result
    ELSE LET current == Head(queue)
             r == KahnRelax(successors(self, current), 1, in_degrees,
                            Tail(queue))
         IN  KahnLoop(self, r.in_degrees, r.queue, Append(result, current))

Returned(v) == [raised |-> FALSE, val |-> v]

Raised == [raised |-> TRUE, val |-> <<>>]

top_sort(self) ==
    LET in_degrees == [n \in DOMAIN self.nodes |-> indegree(self, n)]
        IsSource(n) == in_degrees[n] = 0
        queue == SelectSeq(self.nodeKeys, IsSource)
        result == KahnLoop(self, in_degrees, queue, <<>>)
    IN  IF Len(result) # Len(self.nodeKeys) THEN Raised
        ELSE Returned(result)

----------------------------------------------------------------------------
(* TraversableDigraph.dfs and bfs.  A stack is a sequence whose top is its *)
(* last element (list.append / list.pop).                                  *)

\* The push of dfs with the successors taken in list order, not reversed.
PushForward(stack, succs, visited) ==
    LET Unvisited(n) == n \notin visited
    IN  stack \o SelectSeq(succs, Unvisited)

\* "for successor in reversed(successors): if successor not in visited:
\*  stack.append(successor)"
PushReversed(stack, succs, visited) ==
    LET Unvisited(n) == n \notin visited
    IN  stack \o SelectSeq(Reverse(succs), Unvisited)

RECURSIVE DfsLoop(_, _, _, _)
\* "while stack:"; out is the sequence of the nodes yielded so far.
DfsLoop(self, visited, stack, out) ==
    IF stack = <<>> THEN out
    ELSE LET current == stack[Len(stack)]
             rest == SubSeq(stack, 1, Len(stack) - 1)
         IN  IF current \notin visited
             THEN DfsLoop(self, visited \cup {current},
                          PushReversed(rest, successors(self, current),
                                       visited \cup {current}),
                          Append(out, current))
             ELSE DfsLoop(self, visited, rest, out)

\* dfs that does not mark the start node as visited.
dfs_start_unmarked(self, start_node) ==
    IF start_node \notin DOMAIN self.nodes THEN <<>>
    ELSE DfsLoop(self, {}, Reverse(successors(self, start_node)), <<>>)

\* dfs whose first stack holds the start node's successors unreversed.
dfs_initial_forward(self, start_node) ==
    IF start_node \notin DOMAIN self.nodes THEN <<>>
    ELSE DfsLoop(self, {start_node}, successors(self, start_node), <<>>)

dfs(self, start_node) ==
    IF start_node \notin DOMAIN self.nodes THEN <<>>
    ELSE DfsLoop(self, {start_node}, Reverse(successors(self, start_node)),
                 <<>>)

RECURSIVE BfsExpand(_, _, _, _, _)
\* "for successor in self.successors(current)": the entries from index i on.
BfsExpand(succs, i, visited, queue, out) ==
    IF i > Len(succs)
    THEN [visited |-> visited, queue |-> queue, out |-> out]
    ELSE IF succs[i] \notin visited
         THEN BfsExpand(succs, i + 1, visited \cup {succs[i]},
                        Append(queue, succs[i]), Append(out, succs[i]))
         ELSE BfsExpand(succs, i + 1, visited, queue, out)

RECURSIVE BfsLoop(_, _, _, _)
\* "while queue:"
BfsLoop(self, visited, queue, out) ==
    IF queue = <<>> THEN out
    ELSE LET r == BfsExpand(successors(self, Head(queue)), 1, visited,
                            Tail(queue), out)
         IN  BfsLoop(self, r.visited, r.queue, r.out)

\* bfs that explores each node's successors before its siblings.
bfs_depth_first(self, start_node) ==
    IF start_node \notin DOMAIN self.nodes THEN <<>>
    ELSE DfsLoop(self, {start_node}, Reverse(successors(self, start_node)),
                 <<>>)

bfs(self, start_node) ==
    IF start_node \notin DOMAIN self.nodes THEN <<>>
    ELSE BfsLoop(self, {start_node}, <<start_node>>, <<>>)

----------------------------------------------------------------------------
(* DAG *)

RECURSIVE HasPathLoop(_, _, _, _)
\* "while stack:" of _has_path_dfs
HasPathLoop(self, target, visited, stack) ==
    IF stack = <<>> THEN FALSE
    ELSE LET current == stack[Len(stack)]
             rest == SubSeq(stack, 1, Len(stack) - 1)
         IN  IF current = target THEN TRUE
             ELSE IF current \notin visited
                  THEN LET Unvisited(n) == n \notin visited \cup {current}
                       IN  HasPathLoop(self, target, visited \cup {current},
                                       rest \o SelectSeq(
                                           successors(self, current),
                                           Unvisited))
                  ELSE HasPathLoop(self, target, visited, rest)

\* _has_path_dfs that looks at the direct successors only.
has_path_direct(self, start, target) ==
    IF start \notin DOMAIN self.nodes \/ target \notin DOMAIN self.nodes
    THEN FALSE
    ELSE IF start = target THEN TRUE
         ELSE target \in Range(successors(self, start))

\* DAG._has_path_dfs
has_path_dfs(self, start, target) ==
    IF start \notin DOMAIN self.nodes \/ target \notin DOMAIN self.nodes
    THEN FALSE
    ELSE IF start = target THEN TRUE
         ELSE HasPathLoop(self, target, {}, <<start>>)

\* DAG.add_edge that probes for a path from start_node to end_node.
DAG_add_edge_swapped(self, a) ==
    LET s1 == ensure_node(self, a.start_node, a.start_node_value)
        s2 == ensure_node(s1, a.end_node, a.end_node_value)
    IN  IF has_path_dfs(s2, a.start_node, a.end_node)
        THEN [self |-> s2, raised |-> TRUE]
        ELSE [self |-> add_edge(s2, a), raised |-> FALSE]

\* DAG.add_edge: the object after the call, and whether ValueError was raised.
DAG_add_edge(self, a) ==
    LET s1 == ensure_node(self, a.start_node, a.start_node_value)
        s2 == ensure_node(s1, a.end_node, a.end_node_value)
    IN  IF has_path_dfs(s2, a.end_node, a.start_node)
        THEN [self |-> s2, raised |-> TRUE]
        ELSE [self |-> add_edge(s2, a), raised |-> FALSE]

----------------------------------------------------------------------------
(* The calls *)

Store(self) ==
    /\ nodeKeys' = self.nodeKeys
    /\ nodes' = self.nodes
    /\ edges' = self.edges
    /\ adjacency' = self.adjacency

Graph == <<nodeKeys, nodes, edges, adjacency>>

\* The keys a call may name: those of the graph and the next unused one of
\* keyOrder.
KnownOrNext(keyOrder) ==
    DOMAIN nodes \cup
    (IF Len(nodeKeys) < Len(keyOrder) THEN {keyOrder[Len(nodeKeys) + 1]}
     ELSE {})

\* The end nodes a call add_edge(start, ...) may name: as KnownOrNext, after
\* start has taken its key.
EndKeys(keyOrder, start) ==
    LET n == Len(nodeKeys) + (IF start \in DOMAIN nodes THEN 0 ELSE 1)
    IN  DOMAIN nodes \cup {start} \cup
        (IF n < Len(keyOrder) THEN {keyOrder[n + 1]} ELSE {})

NumEntries ==
    LET RECURSIVE Sum(_)
        Sum(S) == IF S = {} THEN 0
                  ELSE LET k == CHOOSE x \in S : TRUE
                       IN  Len(adjacency[k]) + Sum(S \ {k})
    IN  Sum(DOMAIN adjacency)

Init ==
    /\ cls \in {"TraversableDigraph", "DAG"}
    /\ nodeKeys = <<>>
    /\ nodes = EmptyDict
    /\ edges = EmptyDict
    /\ adjacency = EmptyDict
    /\ call = [op |-> "init", args |-> <<>>]
    /\ ret = Returned(<<>>)

AddNode(node_id, node_value) ==
    /\ Store(add_node(Self, node_id, node_value))
    /\ call' = [op |-> "add_node", args |-> <<node_id, node_value>>]
    /\ ret' = Returned(<<>>)
    /\ UNCHANGED cls

\* add_edge, dispatched on the object's class.
AddEdge(a) ==
    LET r == IF cls = "DAG" THEN DAG_add_edge(Self, a)
             ELSE [self |-> add_edge(Self, a), raised |-> FALSE]
    IN  /\ Store(r.self)
        /\ call' = [op |-> "add_edge", args |-> a]
        /\ ret' = IF r.raised THEN Raised ELSE Returned(<<>>)
        /\ UNCHANGED cls

TopSort ==
    /\ call' = [op |-> "top_sort", args |-> <<>>]
    /\ ret' = top_sort(Self)
    /\ UNCHANGED <<cls, Graph>>

Dfs(start_node) ==
    /\ call' = [op |-> "dfs", args |-> <<start_node>>]
    /\ ret' = Returned(dfs(Self, start_node))
    /\ UNCHANGED <<cls, Graph>>

Bfs(start_node) ==
    /\ call' = [op |-> "bfs", args |-> <<start_node>>]
    /\ ret' = Returned(bfs(Self, start_node))
    /\ UNCHANGED <<cls, Graph>>

Next ==
    \/ \E k \in KnownOrNext(KeyOrder) : AddNode(k, DefaultValue)
    \/ \E s \in KnownOrNext(KeyOrder) : \E e \in EndKeys(KeyOrder, s) :
         \E name \in EdgeNames, w \in EdgeWeights :
            /\ NumEntries < MaxEdges
            /\ AddEdge(EdgeArgs(s, e, DefaultValue, DefaultValue, name, w))
    \/ TopSort
    \/ \E s \in KnownOrNext(KeyOrder) : Dfs(s)
    \/ \E s \in KnownOrNext(KeyOrder) : Bfs(s)

Spec == Init /\ [][Next]_vars

\* The calls that store node values, with values other than the default.
NextValues ==
    \/ \E k \in KnownOrNext(ValueKeyOrder), v \in Values : AddNode(k, v)
    \/ \E s \in KnownOrNext(ValueKeyOrder) :
         \E e \in EndKeys(ValueKeyOrder, s) :
         \E sv \in Values, ev \in Values, name \in EdgeNames,
            w \in EdgeWeights :
            /\ NumEntries < MaxEdges
            /\ AddEdge(EdgeArgs(s, e, sv, ev, name, w))

SpecValues == Init /\ [][NextValues]_vars

----------------------------------------------------------------------------
(* The clothing example of the __main__ block: a DAG built edge by edge in *)
(* the order of the source, then the rejected edge jacket -> shirt; the    *)
(* traversals and the sort may be called at any stage, from any item.      *)

ClothingEdges ==
    << <<"shirt", "pants">>, <<"shirt", "socks">>, <<"shirt", "vest">>,
       <<"pants", "tie">>, <<"pants", "belt">>, <<"pants", "shoes">>,
       <<"socks", "shoes">>, <<"tie", "jacket">>, <<"belt", "jacket">>,
       <<"vest", "jacket">>, <<"shoes", "jacket">> >>

ClothingItems ==
    {ClothingEdges[i][1] : i \in 1..Len(ClothingEdges)} \cup
    {ClothingEdges[i][2] : i \in 1..Len(ClothingEdges)}

\* clothing.add_edge(x, y): every other argument at its default.
ClothingArgs(start_node, end_node) ==
    EdgeArgs(start_node, end_node, DefaultValue, DefaultValue, DefaultName,
             DefaultWeight)

InitClothing ==
    /\ cls = "DAG"
    /\ nodeKeys = <<>>
    /\ nodes = EmptyDict
    /\ edges = EmptyDict
    /\ adjacency = EmptyDict
    /\ call = [op |-> "init", args |-> <<>>]
    /\ ret = Returned(<<>>)

ClothingBuilt == NumEntries = Len(ClothingEdges)

ClothingAddEdge ==
    /\ ~ClothingBuilt
    /\ LET e == ClothingEdges[NumEntries + 1]
       IN  AddEdge(ClothingArgs(e[1], e[2]))

ClothingAddCycle ==
    /\ ClothingBuilt
    /\ AddEdge(ClothingArgs("jacket", "shirt"))

NextClothing ==
    \/ ClothingAddEdge
    \/ ClothingAddCycle
    \/ TopSort
    \/ \E s \in ClothingItems : Dfs(s)
    \/ \E s \in ClothingItems : Bfs(s)

SpecClothing == InitClothing /\ [][NextClothing]_vars

----------------------------------------------------------------------------
(* Reference notions the properties are stated with: graph reachability    *)
(* and distance as relations on the stored pairs, and the textbook         *)
(* recursive depth-first search.                                           *)

\* The pairs (u, v) of the adjacency lists.
AdjPairs ==
    UNION {{<<k, adjacency[k][i][1]>> : i \in 1..Len(adjacency[k])} :
           k \in DOMAIN adjacency}

\* The pairs (u, v) of the edge metadata map.
EdgePairs == DOMAIN edges

Image(R, S) == {p[2] : p \in {q \in R : q[1] \in S}}

RECURSIVE Grow(_, _)
Grow(R, acc) ==
    LET more == acc \cup Image(R, acc)
    IN  IF more = acc THEN acc ELSE Grow(R, more)

\* The nodes reachable from s along one or more pairs of R.
ReachPlus(R, s) == Grow(R, Image(R, {s}))

HasCycle(R) == \E p \in R : p[1] \in ReachPlus(R, p[1])

RECURSIVE Levels(_, _, _, _)
Levels(R, seen, t, d) ==
    IF t \in seen THEN d
    ELSE IF Image(R, seen) \subseteq seen THEN Cardinality(R) + 1
         ELSE Levels(R, seen \cup Image(R, seen), t, d + 1)

\* The number of pairs on a shortest path from s to t (more than the number
\* of pairs when there is none).
Dist(R, s, t) == Levels(R, {s}, t, 0)

NoDuplicates(seq) ==
    \A i, j \in 1..Len(seq) : seq[i] = seq[j] => i = j

Precedes(seq, u, v) ==
    \E i, j \in 1..Len(seq) : i < j /\ seq[i] = u /\ seq[j] = v

RECURSIVE Visit(_, _)
RECURSIVE VisitAll(_, _, _)
\* visit(u): mark u, emit it, then visit each unvisited successor in
\* adjacency order.  st = [visited, out].
Visit(u, st) ==
    VisitAll(successors(Self, u), 1,
             [visited |-> st.visited \cup {u}, out |-> Append(st.out, u)])

VisitAll(succs, i, st) ==
    IF i > Len(succs) THEN st
    ELSE VisitAll(succs, i + 1,
                  IF succs[i] \in st.visited THEN st
                  ELSE Visit(succs[i], st))

\* Recursive pre-order depth-first search from s, s omitted.
RecursivePreorder(s) ==
    IF s \notin DOMAIN nodes THEN <<>>
    ELSE VisitAll(successors(Self, s), 1,
                  [visited |-> {s}, out |-> <<>>]).out

----------------------------------------------------------------------------
(* Properties *)

\* C1: whenever top_sort() returns, its result holds every node exactly
\* once and, for every stored edge (u, v), u before v.
C1_TopSortIsTopologicalOrder ==
    (call.op = "top_sort" /\ ~ret.raised) =>
        /\ Len(ret.val) = Cardinality(DOMAIN nodes)
        /\ Range(ret.val) = DOMAIN nodes
        /\ \A e \in EdgePairs : Precedes(ret.val, e[1], e[2])

\* C2: on the base graph, top_sort() raises if and only if some node can
\* reach itself along one or more edges.
C2_TopSortRaisesIffCyclic ==
    (cls = "TraversableDigraph" /\ call.op = "top_sort") =>
        (ret.raised <=> HasCycle(EdgePairs))

\* C3: a DAG add_edge call that raises leaves the node set, the node values,
\* the edge metadata and the adjacency lists as they were before the call.
C3_RejectedAddEdgeMutatesNothing ==
    [][(cls = "DAG" /\ call'.op = "add_edge" /\ ret'.raised)
          => UNCHANGED Graph]_vars

\* C4: in a DAG no node reaches itself along one or more stored edges or
\* adjacency entries, in every reachable state.
C4_DagIsAcyclic ==
    cls = "DAG" => ~HasCycle(EdgePairs) /\ ~HasCycle(AdjPairs)

\* A DAG that has just rejected an edge between two different nodes.
C4_Witness ==
    /\ cls = "DAG"
    /\ call.op = "add_edge"
    /\ ret.raised
    /\ call.args.start_node # call.args.end_node
    /\ Cardinality(EdgePairs) >= 2

\* C5: dfs(s) and bfs(s) yield each node other than s that is reachable
\* from s exactly once and nothing else; from an unknown s they yield
\* nothing.
C5_TraversalYieldsReachableOnce ==
    call.op \in {"dfs", "bfs"} =>
        LET s == call.args[1]
        IN  /\ ~ret.raised
            /\ IF s \notin DOMAIN nodes THEN ret.val = <<>>
               ELSE /\ NoDuplicates(ret.val)
                    /\ Range(ret.val) = ReachPlus(AdjPairs, s) \ {s}

\* dfs from a node that lies on a cycle, yielding two nodes.
C5_Witness ==
    /\ call.op = "dfs"
    /\ call.args[1] \in ReachPlus(AdjPairs, call.args[1])
    /\ Len(ret.val) >= 2

\* C6: bfs(s) yields the nodes in order of non-decreasing distance from s.
C6_BfsOrderedByDistance ==
    call.op = "bfs" =>
        LET s == call.args[1]
        IN  \A i, j \in 1..Len(ret.val) :
               i < j => Dist(AdjPairs, s, ret.val[i])
                          <= Dist(AdjPairs, s, ret.val[j])

\* bfs yielding three nodes on two levels.
C6_Witness ==
    /\ call.op = "bfs"
    /\ Len(ret.val) >= 3
    /\ Dist(AdjPairs, call.args[1], ret.val[1])
         < Dist(AdjPairs, call.args[1], ret.val[3])

\* C10: dfs(s) yields the sequence of the recursive pre-order depth-first
\* search from s.
C10_DfsIsRecursivePreorder ==
    call.op = "dfs" => ret.val = RecursivePreorder(call.args[1])

\* dfs yielding three nodes, through a node other than the start that has
\* two successors.
C10_Witness ==
    /\ call.op = "dfs"
    /\ Len(ret.val) = 3
    /\ \E k \in DOMAIN adjacency :
          k # call.args[1] /\ Len(adjacency[k]) >= 2

\* C7: on the clothing graph dfs("shirt") yields pants, tie, jacket, belt,
\* vest, socks, shoes (the sequence as the claim gives it).
C7_ClothingDfsAsClaimed ==
    (ClothingBuilt /\ call = [op |-> "dfs", args |-> <<"shirt">>]) =>
        ret.val = <<"pants", "tie", "jacket", "belt", "vest", "socks",
                    "shoes">>

\* C7 (amended): on the clothing graph dfs("shirt") yields pants, tie,
\* jacket, belt, shoes, socks, vest.
C7_ClothingDfs ==
    (ClothingBuilt /\ call = [op |-> "dfs", args |-> <<"shirt">>]) =>
        ret.val = <<"pants", "tie", "jacket", "belt", "shoes", "socks",
                    "vest">>

\* dfs("shirt") on the complete clothing graph.
C7_Witness ==
    /\ ClothingBuilt
    /\ call = [op |-> "dfs", args |-> <<"shirt">>]
    /\ Len(ret.val) = 7

\* C8: add_edge leaves the value of every node that already exists as it
\* is, gives an endpoint it creates the value supplied for it, and leaves
\* both endpoints nodes.
C8_AddEdgeKeepsExistingValues ==
    [][call'.op = "add_edge" =>
         LET a == call'.args
         IN  /\ \A k \in DOMAIN nodes :
                  k \in DOMAIN nodes' /\ nodes'[k] = nodes[k]
             /\ DOMAIN nodes' = DOMAIN nodes \cup {a.start_node, a.end_node}
             /\ a.start_node \notin DOMAIN nodes
                  => nodes'[a.start_node] = a.start_node_value
             /\ (a.end_node \notin DOMAIN nodes
                 /\ a.end_node # a.start_node)
                  => nodes'[a.end_node] = a.end_node_value]_vars

\* An accepted DAG add_edge whose two supplied values both differ from the
\* values its endpoints hold: both endpoints existed and kept their values.
C8_Witness ==
    /\ cls = "DAG"
    /\ call.op = "add_edge"
    /\ ~ret.raised
    /\ call.args.start_node # call.args.end_node
    /\ nodes[call.args.start_node] # call.args.start_node_value
    /\ nodes[call.args.end_node] # call.args.end_node_value

\* C9: a DAG add_edge(src, dst) is rejected if and only if, before the call,
\* src = dst or a path of stored edges leads from dst to src; otherwise it
\* records the metadata of (src, dst) and appends dst to src's adjacency.
C9_DagRejectsIffPathBack ==
    [][(cls = "DAG" /\ call'.op = "add_edge") =>
         LET a == call'.args
             src == a.start_node
             dst == a.end_node
             back == src = dst \/ src \in ReachPlus(EdgePairs, dst)
             before == IF src \in DOMAIN adjacency THEN adjacency[src]
                       ELSE <<>>
         IN  /\ ret'.raised <=> back
             /\ ~back =>
                  /\ <<src, dst>> \in DOMAIN edges'
                  /\ edges'[<<src, dst>>] =
                       [weight |-> a.edge_weight, name |-> a.edge_name]
                  /\ adjacency'[src] = Append(before, <<dst, a.edge_name>>)]_vars

\* The DAG after A->C, B->A, B->C were all accepted (A, C, B are the keys
\* a, b, c in the order of their introduction).
C9_Witness ==
    /\ cls = "DAG"
    /\ call.op = "add_edge"
    /\ ~ret.raised
    /\ DOMAIN nodes = {"a", "b", "c"}
    /\ adjacency["a"] = << <<"b", DefaultName>> >>
    /\ adjacency["b"] = <<>>
    /\ adjacency["c"] = << <<"a", DefaultName>>, <<"b", DefaultName>> >>

====
